---- MODULE Spec2Model ----
(***************************************************************************)
(* A model of curious.commands.manager.CommandsManager: its plugin         *)
(* lifecycle (load_plugin, load_plugins_from, unload_plugin,               *)
(* unload_plugins_from), its command tables (add_command, remove_command,  *)
(* lookup_command), its event fan-out (event_hook) and its dispatch error  *)
(* routing (handle_commands, default_command_error).                       *)
(*                                                                         *)
(* Python objects are records, so that objects of different types compare  *)
(* unequal: a plugin instance is [id, klass], a cancel scope is [scope],   *)
(* the tuple (instance, scope) is [fst, snd], a str used as a dict key of  *)
(* the command cache is [str], None is [none].  A dict is a sequence of    *)
(* <<key, value>> pairs in insertion order, as CPython keeps it.           *)
(*                                                                         *)
(* Every coroutine is cut at its awaits: one action runs the code from one *)
(* await to the next, and other coroutines may run in between.             *)
(***************************************************************************)
EXTENDS Integers, Sequences, FiniteSets, TLC

VARIABLES
    plugins,               \* self.plugins: name -> (instance, scope)
    plugin_command_cache,  \* self._plugin_command_cache: key -> command table
    commands,              \* self.commands: the standalone command table
    module_plugins,        \* self._module_plugins: module -> list of instances
    sys_modules,           \* sys.modules, restricted to the plugin modules
    running,               \* ids of the background tasks started and not cancelled
    cancelled,             \* ids of the background tasks cancelled through their scope
    load_hooked,           \* ids of the instances whose plugin_load() was called
    unload_hooked,         \* ids of the instances whose plugin_unload() was called
    created,               \* number of plugin instances constructed so far
    call,                  \* the lifecycle coroutine in flight (or its outcome)
    hook,                  \* the event_hook coroutine in flight (or its outcome)
    listeners,             \* client.events.event_listeners.getall("command_error")
    dispatch,              \* the handle_commands coroutine in flight
    fired,                 \* per message, the fire_event calls handle_commands made, in order
    logged,                \* errors logged by default_command_error
    reported,              \* errors delivered to a host handler of "command_error"
    arg,                   \* the arguments of the last call of a function
    result,                \* what that call returned or raised
    functions              \* the attributes the decorators set on each handler function

lifecycle_vars == <<plugins, plugin_command_cache, commands, module_plugins, sys_modules,
                    running, cancelled, load_hooked, unload_hooked, created, call, hook>>
dispatch_vars == <<listeners, dispatch, fired, logged, reported>>
pure_vars == <<arg, result, functions>>
vars == <<lifecycle_vars, dispatch_vars, pure_vars>>

-----------------------------------------------------------------------------
(* Bounds of the model. *)

\* plugin instances constructed in one behaviour
MaxInst == 3
\* messages dispatched in one behaviour of the dispatch specification
MaxMsg == 2
\* plugins loaded in one behaviour of the command table specification
MaxLoaded == 1
\* atoms of a command path given to get_command
MaxPath == 5
\* tokens given to _convert
MaxTokens == 3
\* characters of a content given to split_message_content
MaxContent == 7
\* characters of a message given to the prefix checker
MaxMessageLen == 4
\* candidates in a list of prefixes
MaxPrefixes == 2
\* subcommands registered on one command
MaxSubcommands == 2

-----------------------------------------------------------------------------
(* Python values. *)

None == [none |-> TRUE]
Str(s) == [str |-> s]
Instance(n, k) == [id |-> n, klass |-> k]
Scope(n) == [scope |-> n]
Pair(a, b) == [fst |-> a, snd |-> b]

\* type(x) of the objects the manager handles
TypeOf(x) ==
    IF "klass" \in DOMAIN x THEN x.klass
    ELSE IF "scope" \in DOMAIN x THEN "CancelScope"
    ELSE IF "fst" \in DOMAIN x THEN "tuple"
    ELSE IF "str" \in DOMAIN x THEN "str"
    ELSE "NoneType"

(* dict operations on a sequence of <<key, value>> pairs *)
DictKeys(d) == {d[i][1] : i \in 1..Len(d)}
DictHas(d, k) == \E i \in 1..Len(d) : d[i][1] = k
DictIndex(d, k) == CHOOSE i \in 1..Len(d) : d[i][1] = k
DictGet(d, k) == d[DictIndex(d, k)][2]
\* d[k] = v: an existing key keeps its place, a new key goes last
DictSet(d, k, v) ==
    IF DictHas(d, k) THEN [d EXCEPT ![DictIndex(d, k)] = <<k, v>>]
    ELSE Append(d, <<k, v>>)
\* d.pop(k) for a key that is present
DictPop(d, k) ==
    LET i == DictIndex(d, k) IN SubSeq(d, 1, i - 1) \o SubSeq(d, i + 1, Len(d))

-----------------------------------------------------------------------------
(* The plugin classes and standalone commands the host program defines. *)

PluginClasses == {"Alpha", "Beta"}
Modules == {"mod"}
\* inspect.getmembers(mod, predicate) in load_plugins_from: the classes, by name
ModuleClasses(m) == <<"Alpha", "Beta">>

\* getattr(klass, "plugin_name", klass.__name__): no class sets plugin_name
PluginName(klass) == klass

\* instance._get_commands(): the command methods of the class, bound to the instance
PluginCommandDefs(klass) ==
    IF klass = "Alpha"
    THEN << [cmd_name |-> "ping", cmd_aliases |-> <<"p">>] >>
    ELSE << [cmd_name |-> "echo", cmd_aliases |-> <<"p">>] >>

Command(owner, def) ==
    [owner |-> owner, cmd_name |-> def.cmd_name, cmd_aliases |-> def.cmd_aliases]

GetCommands(instance) ==
    [i \in 1..Len(PluginCommandDefs(instance.klass)) |->
        Command(instance, PluginCommandDefs(instance.klass)[i])]

\* the methods of a plugin class marked with is_event, sorted by name
EventHandlerDefs(klass) ==
    IF klass = "Alpha"
    THEN << [name |-> "on_a", events |-> {"E"}], [name |-> "on_b", events |-> {"E", "F"}] >>
    ELSE << [name |-> "on_c", events |-> {"F"}] >>

EventNames == {"E", "F"}

help_command == [owner |-> None, cmd_name |-> "help", cmd_aliases |-> <<>>]
\* the free-standing commands the host may pass to add_command
StandaloneCommands ==
    { [owner |-> None, cmd_name |-> "ping", cmd_aliases |-> <<"pg">>],
      [owner |-> None, cmd_name |-> "echo", cmd_aliases |-> <<"p">>] }

CommandNames == {"help", "ping", "pg", "p", "echo"}

-----------------------------------------------------------------------------
(* Handler functions. *)

\* the functions the decorators are applied to, by func.__name__
FunctionNames == {"f", "g"}

\* a function that no decorator has marked: it has none of the attributes
Unmarked ==
    [is_cmd |-> FALSE, cmd_name |-> None, cmd_aliases |-> <<>>,
     cmd_subcommand |-> FALSE, cmd_subcommands |-> <<>>]

----------------------------------------------------------------------------
(* Arguments and coroutine frames. *)

\* a class object passed as an argument (as opposed to the str naming it)
Type(k) == [type |-> k]
\* the module object importlib.import_module returns for an import path
ModuleObj(m) == [module |-> m]
IsStr(x) == "str" \in DOMAIN x

\* no lifecycle coroutine in flight
Idle ==
    [op |-> "idle", pc |-> "idle", arg |-> None, module |-> None, batch |-> <<>>,
     instance |-> None, scope |-> None, idx |-> 0, ret |-> None, exc |-> ""]

\* no event_hook coroutine in flight
HookIdle ==
    [pc |-> "idle", event |-> "", pos |-> 0, used |-> 0, body |-> <<>>,
     spawned |-> {}, during |-> None]

-----------------------------------------------------------------------------
(* lookup_command *)

\* the first per-plugin table, in cache order, that has the name
FirstTableWith(name) ==
    LET hits == {i \in 1..Len(plugin_command_cache) :
                    DictHas(plugin_command_cache[i][2], name)}
    IN  IF hits = {} THEN 0 ELSE CHOOSE i \in hits : \A j \in hits : i <= j

\* lookup_command with the two table lookups in the other order
lookup_commandPluginsFirst(name) ==
    IF FirstTableWith(name) # 0
    THEN DictGet(plugin_command_cache[FirstTableWith(name)][2], name)
    ELSE IF DictHas(commands, name) THEN DictGet(commands, name)
    ELSE None

lookup_command(name) ==
    IF DictHas(commands, name) THEN DictGet(commands, name)
    ELSE IF FirstTableWith(name) = 0 THEN None
    ELSE DictGet(plugin_command_cache[FirstTableWith(name)][2], name)

-----------------------------------------------------------------------------
(* load_plugin and load_plugins_from *)

\* table[alias] = command for each alias, in order
RECURSIVE AddAliases(_, _, _)
AddAliases(table, aliases, command) ==
    IF aliases = <<>> THEN table
    ELSE AddAliases(DictSet(table, Head(aliases), command), Tail(aliases), command)

\* the loop of load_plugin that builds the command table of an instance
RECURSIVE BuildTable(_, _)
BuildTable(table, cmds) ==
    IF cmds = <<>> THEN table
    ELSE BuildTable(
            AddAliases(DictSet(table, Head(cmds).cmd_name, Head(cmds)),
                       Head(cmds).cmd_aliases, Head(cmds)),
            Tail(cmds))

\* self._module_plugins[module].append(instance) on the defaultdict
ModuleAppend(mp, module, instance) ==
    DictSet(mp, module,
            Append(IF DictHas(mp, module) THEN DictGet(mp, module) ELSE <<>>, instance))

\* load_plugin up to its first await: instance = klass(*args); await instance.plugin_load()
EnterLoad(op, klass, module, batch) ==
    /\ created' = created + 1
    /\ load_hooked' = load_hooked \cup {created + 1}
    /\ call' = [Idle EXCEPT !.op = op, !.pc = "plugin_load", !.arg = Type(klass),
                            !.module = module, !.batch = batch,
                            !.instance = Instance(created + 1, klass)]

\* load_plugin(klass) is called
LoadPlugin(klass) ==
    /\ call.pc = "idle"
    /\ created < MaxInst
    /\ EnterLoad("load_plugin", klass, None, <<>>)
    /\ UNCHANGED <<plugins, plugin_command_cache, commands, module_plugins, sys_modules,
                   running, cancelled, unload_hooked, hook, dispatch_vars, pure_vars>>

\* load_plugins_from(import_path) is called: the module is imported, then
\* load_plugin(plugin_class, module=mod) is awaited for each of its classes
LoadPluginsFrom(m) ==
    /\ call.pc = "idle"
    /\ created + Len(ModuleClasses(m)) <= MaxInst
    /\ sys_modules' = sys_modules \cup {m}
    /\ EnterLoad("load_plugins_from", Head(ModuleClasses(m)), ModuleObj(m),
                 Tail(ModuleClasses(m)))
    /\ UNCHANGED <<plugins, plugin_command_cache, commands, module_plugins,
                   running, cancelled, unload_hooked, hook, dispatch_vars, pure_vars>>

\* the ids of the tasks running once _spawn_task_internal(_run_plugin) has run
SpawnTask(tasks, instance) == tasks \cup {instance.id}

\* self.plugins[plugin_name] = (instance, new_scope)
RegisterPlugin(table, klass, instance, scope) ==
    DictSet(table, PluginName(klass), Pair(instance, scope))

\* self._plugin_command_cache[instance] = table
CachePlugin(cache, instance) ==
    DictSet(cache, instance, BuildTable(<<>>, GetCommands(instance)))

\* plugin_load() raises in a load_plugin that registers the plugin before it
\* awaits the hook
PluginLoadRaisesRegistered ==
    /\ call.pc = "plugin_load"
    /\ plugins' = RegisterPlugin(plugins, call.arg.type, call.instance,
                                 Scope(call.instance.id))
    /\ call' = [call EXCEPT !.pc = "done", !.exc = "PluginError"]
    /\ UNCHANGED <<plugin_command_cache, commands, module_plugins, sys_modules,
                   running, cancelled, load_hooked, unload_hooked, created, hook,
                   dispatch_vars, pure_vars>>

\* instance.plugin_load() raises: the error leaves load_plugin (and load_plugins_from)
PluginLoadRaises ==
    /\ call.pc = "plugin_load"
    /\ call' = [call EXCEPT !.pc = "done", !.exc = "PluginError"]
    /\ UNCHANGED <<plugins, plugin_command_cache, commands, module_plugins, sys_modules,
                   running, cancelled, load_hooked, unload_hooked, created, hook,
                   dispatch_vars, pure_vars>>

\* instance.plugin_load() returns: the background task is spawned and load_plugin
\* waits for the promise that carries the task's cancel scope
PluginLoadReturns ==
    /\ call.pc = "plugin_load"
    /\ running' = SpawnTask(running, call.instance)
    /\ call' = [call EXCEPT !.pc = "p_scope_wait", !.scope = Scope(call.instance.id)]
    /\ UNCHANGED <<plugins, plugin_command_cache, commands, module_plugins, sys_modules,
                   cancelled, load_hooked, unload_hooked, created, hook, dispatch_vars, pure_vars>>

\* p_scope.wait() returns the scope: the plugin is registered, recorded under its
\* module, and its command table is cached; load_plugin returns the instance, and
\* load_plugins_from goes on with the next class
LoadRegister ==
    /\ call.pc = "p_scope_wait"
    /\ plugins' = RegisterPlugin(plugins, call.arg.type, call.instance, call.scope)
    /\ module_plugins' = IF call.module # None
                         THEN ModuleAppend(module_plugins, call.module, call.instance)
                         ELSE module_plugins
    /\ plugin_command_cache' = CachePlugin(plugin_command_cache, call.instance)
    /\ IF call.batch # <<>>
       THEN EnterLoad(call.op, Head(call.batch), call.module, Tail(call.batch))
       ELSE /\ call' = [call EXCEPT !.pc = "done",
                           !.ret = IF call.op = "load_plugin" THEN call.instance ELSE None]
            /\ UNCHANGED <<created, load_hooked>>
    /\ UNCHANGED <<commands, sys_modules, running, cancelled, unload_hooked, hook,
                   dispatch_vars, pure_vars>>

-----------------------------------------------------------------------------
(* unload_plugin *)

\* the object whose type unload_plugin compares with klass: the loop
\* "for k, (s, p) in self.plugins.copy().items()" unpacks the registered
\* (instance, scope) pair into s and p, and tests type(p)
ScannedObject(value) == value.snd

\* the key unload_plugin pops when given a type: the first whose value matches
TypeMatches(klass) ==
    {i \in 1..Len(plugins) : TypeOf(ScannedObject(plugins[i][2])) = klass.type}

FirstTypeMatch(klass) ==
    CHOOSE i \in TypeMatches(klass) : \A j \in TypeMatches(klass) : i <= j

\* whether self.plugins.pop(klass) for a str finds its key
PopsRegistration(klass) == DictHas(plugins, klass.str)

\* unload_plugin(klass) is called, and runs up to "await scope.cancel()"
UnloadPlugin(klass) ==
    /\ call.pc = "idle"
    /\ IF IsStr(klass)
       THEN IF PopsRegistration(klass)
            THEN /\ plugins' = DictPop(plugins, klass.str)
                 /\ call' = [Idle EXCEPT !.op = "unload_plugin", !.pc = "scope_cancel",
                                 !.arg = klass,
                                 !.instance = DictGet(plugins, klass.str).fst,
                                 !.scope = DictGet(plugins, klass.str).snd]
            ELSE \* KeyError from self.plugins.pop(klass)
                 /\ call' = [Idle EXCEPT !.op = "unload_plugin", !.pc = "done",
                                 !.arg = klass, !.exc = "KeyError"]
                 /\ UNCHANGED plugins
       ELSE IF TypeMatches(klass) # {}
            THEN /\ plugins' = DictPop(plugins, plugins[FirstTypeMatch(klass)][1])
                 /\ call' = [Idle EXCEPT !.op = "unload_plugin", !.pc = "scope_cancel",
                                 !.arg = klass,
                                 !.instance = plugins[FirstTypeMatch(klass)][2].fst,
                                 !.scope = plugins[FirstTypeMatch(klass)][2].snd]
            ELSE \* plugin is None: return
                 /\ call' = [Idle EXCEPT !.op = "unload_plugin", !.pc = "done",
                                 !.arg = klass]
                 /\ UNCHANGED plugins
    /\ UNCHANGED <<plugin_command_cache, commands, module_plugins, sys_modules, running,
                   cancelled, load_hooked, unload_hooked, created, hook, dispatch_vars, pure_vars>>

\* "await scope.cancel()" is over: the task is cancelled, and unload_plugin calls
\* plugin.plugin_unload()
UnloadScopeCancelled ==
    /\ call.pc = "scope_cancel"
    /\ running' = running \ {call.scope.scope}
    /\ cancelled' = cancelled \cup {call.scope.scope}
    /\ unload_hooked' = unload_hooked \cup {call.instance.id}
    /\ call' = [call EXCEPT !.pc = "plugin_unload"]
    /\ UNCHANGED <<plugins, plugin_command_cache, commands, module_plugins, sys_modules,
                   load_hooked, created, hook, dispatch_vars, pure_vars>>

\* the key of self._plugin_command_cache.pop(...) in unload_plugin:
\* getattr(plugin, "plugin_name", type(plugin).__name__), a str
CachePopKey(plugin) == Str(PluginName(plugin.klass))

\* plugin.plugin_unload() returns: the cache entry is popped and the plugin returned
UnloadHookReturns ==
    /\ call.pc = "plugin_unload"
    /\ IF DictHas(plugin_command_cache, CachePopKey(call.instance))
       THEN /\ plugin_command_cache' =
                   DictPop(plugin_command_cache, CachePopKey(call.instance))
            /\ call' = [call EXCEPT !.pc = "done", !.ret = call.instance]
       ELSE \* KeyError from self._plugin_command_cache.pop(...)
            /\ call' = [call EXCEPT !.pc = "done", !.exc = "KeyError"]
            /\ UNCHANGED plugin_command_cache
    /\ UNCHANGED <<plugins, commands, module_plugins, sys_modules, running, cancelled,
                   load_hooked, unload_hooked, created, hook, dispatch_vars, pure_vars>>

\* plugin.plugin_unload() raises, in unload_plugin or in unload_plugins_from
PluginUnloadRaises ==
    /\ call.pc \in {"plugin_unload", "from_plugin_unload"}
    /\ call' = [call EXCEPT !.pc = "done", !.exc = "PluginError"]
    /\ UNCHANGED <<plugins, plugin_command_cache, commands, module_plugins, sys_modules,
                   running, cancelled, load_hooked, unload_hooked, created, hook,
                   dispatch_vars, pure_vars>>

-----------------------------------------------------------------------------
(* unload_plugins_from *)

\* self._module_plugins[module]: the defaultdict makes the missing entry
ModuleList(module) ==
    IF DictHas(module_plugins, module) THEN DictGet(module_plugins, module) ELSE <<>>

\* unload_plugins_from(import_path) is called, and runs up to the first
\* "await plugin.plugin_unload()", or to its end when the module has no plugin
UnloadPluginsFrom(m) ==
    /\ call.pc = "idle"
    /\ IF m \notin sys_modules
       THEN \* KeyError from sys.modules[import_path]
            /\ call' = [Idle EXCEPT !.op = "unload_plugins_from", !.pc = "done",
                            !.arg = Str(m), !.exc = "KeyError"]
            /\ UNCHANGED <<module_plugins, sys_modules, unload_hooked>>
       ELSE IF ModuleList(ModuleObj(m)) = <<>>
            THEN /\ sys_modules' = sys_modules \ {m}
                 /\ module_plugins' =
                        IF DictHas(module_plugins, ModuleObj(m))
                        THEN DictPop(module_plugins, ModuleObj(m)) ELSE module_plugins
                 /\ call' = [Idle EXCEPT !.op = "unload_plugins_from", !.pc = "done",
                                 !.arg = Str(m)]
                 /\ UNCHANGED unload_hooked
            ELSE /\ unload_hooked' =
                        unload_hooked \cup {ModuleList(ModuleObj(m))[1].id}
                 /\ call' = [Idle EXCEPT !.op = "unload_plugins_from",
                                 !.pc = "from_plugin_unload", !.arg = Str(m),
                                 !.module = ModuleObj(m), !.idx = 1,
                                 !.batch = ModuleList(ModuleObj(m)),
                                 !.instance = ModuleList(ModuleObj(m))[1]]
                 /\ UNCHANGED <<module_plugins, sys_modules>>
    /\ UNCHANGED <<plugins, plugin_command_cache, commands, running, cancelled,
                   load_hooked, created, hook, dispatch_vars, pure_vars>>

\* plugin.plugin_unload() returns in the loop of unload_plugins_from: the name is
\* popped from self.plugins, and the loop goes on or the module is deleted
UnloadFromHookReturns ==
    /\ call.pc = "from_plugin_unload"
    /\ IF ~DictHas(plugins, PluginName(call.instance.klass))
       THEN \* KeyError from self.plugins.pop(name)
            /\ call' = [call EXCEPT !.pc = "done", !.exc = "KeyError"]
            /\ UNCHANGED <<plugins, module_plugins, sys_modules, unload_hooked>>
       ELSE /\ plugins' = DictPop(plugins, PluginName(call.instance.klass))
            /\ IF call.idx < Len(ModuleList(call.module))
               THEN /\ unload_hooked' =
                           unload_hooked \cup {ModuleList(call.module)[call.idx + 1].id}
                    /\ call' = [call EXCEPT !.idx = call.idx + 1,
                                    !.instance = ModuleList(call.module)[call.idx + 1]]
                    /\ UNCHANGED <<module_plugins, sys_modules>>
               ELSE /\ sys_modules' = sys_modules \ {call.arg.str}
                    /\ module_plugins' = DictPop(module_plugins, call.module)
                    /\ call' = [call EXCEPT !.pc = "done"]
                    /\ UNCHANGED unload_hooked
    /\ UNCHANGED <<plugin_command_cache, commands, running, cancelled, load_hooked,
                   created, hook, dispatch_vars, pure_vars>>

\* the caller of the lifecycle coroutine takes its result (or its error)
CallReturns ==
    /\ call.pc = "done"
    /\ call' = Idle
    /\ UNCHANGED <<plugins, plugin_command_cache, commands, module_plugins, sys_modules,
                   running, cancelled, load_hooked, unload_hooked, created, hook,
                   dispatch_vars, pure_vars>>

-----------------------------------------------------------------------------
(* add_command and remove_command.  The lifecycle properties below do not read    *)
(* them, and Next leaves the standalone table as register_events made it.        *)

\* add_command(command): the name and every alias map to the command
AddCommand(command) ==
    /\ commands' = AddAliases(DictSet(commands, command.cmd_name, command),
                              command.cmd_aliases, command)
    /\ UNCHANGED <<plugins, plugin_command_cache, module_plugins, sys_modules, running,
                   cancelled, load_hooked, unload_hooked, created, call, hook,
                   dispatch_vars, pure_vars>>

\* the keys of self.commands whose value is the command, in table order
KeysOf(command) == {i \in 1..Len(commands) : commands[i][2] = command}

\* remove_command(command) given the command function: the loop returns at the
\* first key that maps to the command
RemoveCommand(command) ==
    /\ KeysOf(command) # {}
    /\ commands' = DictPop(commands,
            commands[CHOOSE i \in KeysOf(command) : \A j \in KeysOf(command) : i <= j][1])
    /\ UNCHANGED <<plugins, plugin_command_cache, module_plugins, sys_modules, running,
                   cancelled, load_hooked, unload_hooked, created, call, hook,
                   dispatch_vars, pure_vars>>

\* remove_command(name) given a str that is a key of the table
RemoveCommandNamed(name) ==
    /\ DictHas(commands, name)
    /\ commands' = DictPop(commands, name)
    /\ UNCHANGED <<plugins, plugin_command_cache, module_plugins, sys_modules, running,
                   cancelled, load_hooked, unload_hooked, created, call, hook,
                   dispatch_vars, pure_vars>>

-----------------------------------------------------------------------------
(* event_hook *)

\* inspect.getmembers(obj, predicate=lambda v: hasattr(v, "is_event")): the event
\* handlers of a plugin instance, bound to it; no member of any other object
\* (a tuple, a cancel scope) has is_event
GetMembers(obj) ==
    IF "klass" \in DOMAIN obj
    THEN [i \in 1..Len(EventHandlerDefs(obj.klass)) |->
            [self |-> obj, name |-> EventHandlerDefs(obj.klass)[i].name,
             events |-> EventHandlerDefs(obj.klass)[i].events]]
    ELSE <<>>

\* an event_hook that inspects the instance of the registered pair
InspectedInstance(value) == value.fst

\* the object event_hook inspects for handlers: the loop variable of
\* "for plugin in self.plugins.values()", a registered (instance, scope) pair
InspectedObject(value) == value

\* event_hook from where it stands to its next await: "await tg.spawn(cofunc)" for
\* the next handler of the event, or the end of the loop (the task group's exit).
\* The iterator over self.plugins.values() raises RuntimeError when the dict has
\* changed size since the loop began.
RECURSIVE RunHook(_)
RunHook(f) ==
    IF f.body # <<>>
    THEN IF f.event \in Head(f.body).events
         THEN [f EXCEPT !.pc = "spawn", !.body = Tail(f.body),
                        !.spawned = f.spawned \cup
                            {[self |-> Head(f.body).self, name |-> Head(f.body).name]}]
         ELSE RunHook([f EXCEPT !.body = Tail(f.body)])
    ELSE IF Len(plugins) # f.used THEN [f EXCEPT !.pc = "raised"]
    ELSE IF f.pos >= Len(plugins) THEN [f EXCEPT !.pc = "join"]
    ELSE RunHook([f EXCEPT !.pos = f.pos + 1,
                           !.body = GetMembers(InspectedObject(plugins[f.pos + 1][2]))])

\* the plugin unload_plugin is unloading, while it is suspended in an await
Unloading ==
    IF call.op = "unload_plugin" /\ call.pc \in {"scope_cancel", "plugin_unload"}
    THEN call.instance ELSE None

\* event_hook(ctx) is called for an event, and enters its task group
EventHook(e) ==
    /\ hook.pc = "idle"
    /\ hook' = [HookIdle EXCEPT !.pc = "enter", !.event = e]
    /\ UNCHANGED <<plugins, plugin_command_cache, commands, module_plugins, sys_modules,
                   running, cancelled, load_hooked, unload_hooked, created, call,
                   dispatch_vars, pure_vars>>

\* event_hook runs its loop: from the task group's entry, or on from a spawn
EventHookRuns ==
    /\ hook.pc \in {"enter", "spawn"}
    /\ hook' = RunHook(IF hook.pc = "enter"
                       THEN [hook EXCEPT !.used = Len(plugins), !.during = Unloading]
                       ELSE hook)
    /\ UNCHANGED <<plugins, plugin_command_cache, commands, module_plugins, sys_modules,
                   running, cancelled, load_hooked, unload_hooked, created, call,
                   dispatch_vars, pure_vars>>

\* every spawned handler has finished: the task group exits and event_hook returns
EventHookJoins ==
    /\ hook.pc = "join"
    /\ hook' = [hook EXCEPT !.pc = "done"]
    /\ UNCHANGED <<plugins, plugin_command_cache, commands, module_plugins, sys_modules,
                   running, cancelled, load_hooked, unload_hooked, created, call,
                   dispatch_vars, pure_vars>>

\* the caller of event_hook takes its result (or its error)
EventHookReturns ==
    /\ hook.pc \in {"done", "raised"}
    /\ hook' = HookIdle
    /\ UNCHANGED <<plugins, plugin_command_cache, commands, module_plugins, sys_modules,
                   running, cancelled, load_hooked, unload_hooked, created, call,
                   dispatch_vars, pure_vars>>

-----------------------------------------------------------------------------
(* The event channel of the client: handlers of the "command_error" signal. *)

DefaultHandler == "default_command_error"
HostHandlers == {"host_a", "host_b"}

\* the host registers a handler of "command_error"
AddEvent(h) ==
    /\ \A i \in 1..Len(listeners) : listeners[i] # h
    /\ listeners' = Append(listeners, h)
    /\ UNCHANGED <<pure_vars, lifecycle_vars, dispatch, fired, logged, reported>>

\* the list without its first occurrence of a handler
RemoveHandler(ls, h) ==
    IF \E i \in 1..Len(ls) : ls[i] = h
    THEN LET i == CHOOSE i \in 1..Len(ls) : ls[i] = h /\ \A j \in 1..(i - 1) : ls[j] # h
         IN  SubSeq(ls, 1, i - 1) \o SubSeq(ls, i + 1, Len(ls))
    ELSE ls

\* the host removes a handler of "command_error" it had registered
RemoveEvent(h) ==
    /\ \E i \in 1..Len(listeners) : listeners[i] = h
    /\ listeners' = RemoveHandler(listeners, h)
    /\ UNCHANGED <<pure_vars, lifecycle_vars, dispatch, fired, logged, reported>>

-----------------------------------------------------------------------------
(* default_command_error *)

\* a handler that steps aside only for two other handlers
NotAloneOffByOne(ls) == Len(ls) > 2

\* len(self.client.events.event_listeners.getall("command_error")) > 1
NotAlone(ls) == Len(ls) > 1

\* one call of default_command_error(ctx, err) on state [listeners, logged]:
\* it removes itself and returns, or it logs the error
default_command_error(st, err) ==
    IF NotAlone(st.listeners)
    THEN [st EXCEPT !.listeners = RemoveHandler(st.listeners, DefaultHandler)]
    ELSE [st EXCEPT !.logged = st.logged \cup {[err |-> err, handlers |-> st.listeners]}]

\* one call of a host handler: the host reports the error
HostHandler(st, err) == [st EXCEPT !.reported = st.reported \cup {err}]

\* fire_event delivers the signal to the handlers registered when it is fired, in
\* their order of registration
RECURSIVE Deliver(_, _, _)
Deliver(st, handlers, err) ==
    IF handlers = <<>> THEN st
    ELSE Deliver(IF Head(handlers) = DefaultHandler
                 THEN default_command_error(st, err)
                 ELSE HostHandler(st, err),
                 Tail(handlers), err)

\* the state of the channel after fire_event(signal, err, ctx=...)
FireEvent(signal, err) ==
    IF signal = "command_error"
    THEN Deliver([listeners |-> listeners, logged |-> logged, reported |-> reported],
                 listeners, err)
    ELSE [listeners |-> listeners, logged |-> logged, reported |-> reported]

-----------------------------------------------------------------------------
(* handle_commands *)

Messages == 1..MaxMsg
\* the event names of the CommandsError a command may raise: the signal of an
\* error kind is distinct from the generic "command_error"
ErrorKinds == {"command_missing_argument", "command_conversion_failed"}
\* the bits of client.bot_type that handle_commands tests
BotTypeBits == {8, 16, 32, 64}

NoDispatch == [pc |-> "new", err |-> None, ctx |-> None, exc |-> ""]

\* the four checks of the author and the guild at the top of handle_commands:
\* TRUE when the message is dropped
Dropped(bot_type, has_author, is_bot, is_self, in_guild) ==
    \/ ~has_author
    \/ is_bot /\ 8 \in bot_type
    \/ ~is_self /\ 64 \in bot_type
    \/ in_guild /\ 32 \in bot_type
    \/ ~in_guild /\ 16 \in bot_type

\* handle_commands(ctx, message) is called: a dropped message ends it, any other
\* is given to self.message_check
HandleCommands(m, bot_type, has_author, is_bot, is_self, in_guild) ==
    /\ dispatch[m].pc = "new"
    /\ dispatch' = [dispatch EXCEPT ![m].pc =
            IF Dropped(bot_type, has_author, is_bot, is_self, in_guild)
            THEN "returned" ELSE "message_check"]
    /\ UNCHANGED <<pure_vars, lifecycle_vars, listeners, fired, logged, reported>>

\* self.message_check answers: no match ends handle_commands, a match makes the
\* context and awaits ctx.run_contained_command()
MessageChecked(m, matched) ==
    /\ dispatch[m].pc = "message_check"
    /\ dispatch' = [dispatch EXCEPT ![m].pc =
            IF matched THEN "run_contained_command" ELSE "returned"]
    /\ UNCHANGED <<pure_vars, lifecycle_vars, listeners, fired, logged, reported>>

\* ctx.run_contained_command() returns
CommandCompletes(m) ==
    /\ dispatch[m].pc = "run_contained_command"
    /\ dispatch' = [dispatch EXCEPT ![m].pc = "returned"]
    /\ UNCHANGED <<pure_vars, lifecycle_vars, listeners, fired, logged, reported>>

\* ctx.run_contained_command() raises an error that is no CommandsError
CommandCrashes(m) ==
    /\ dispatch[m].pc = "run_contained_command"
    /\ dispatch' = [dispatch EXCEPT ![m].pc = "returned", ![m].exc = "Exception"]
    /\ UNCHANGED <<pure_vars, lifecycle_vars, listeners, fired, logged, reported>>

\* an except clause that fires the signal of the error's kind first
FirstSignalOfKind(e) == e.event_name

\* the signal of the first and of the second fire_event of the except clause
FirstSignal(e) == "command_error"
SecondSignal(e) == e.event_name

\* the call fire_event(signal, e, ctx=reraise_ctx) as handle_commands makes it
Fire(m, signal, e, ctx) ==
    /\ fired' = [fired EXCEPT ![m] =
                    Append(@, [msg |-> m, signal |-> signal, err |-> e, ctx |-> ctx])]
    /\ listeners' = FireEvent(signal, e).listeners
    /\ logged' = FireEvent(signal, e).logged
    /\ reported' = FireEvent(signal, e).reported

\* ctx.run_contained_command() raises a CommandsError: the reraise context is made
\* and the first signal is fired
CommandRaises(m, kind) ==
    /\ dispatch[m].pc = "run_contained_command"
    /\ LET e == [error |-> m, event_name |-> kind]
           reraise_ctx == [reraise_of |-> m, event_name |-> kind]
       IN  /\ dispatch' = [dispatch EXCEPT ![m].pc = "fire_first", ![m].err = e,
                                            ![m].ctx = reraise_ctx]
           /\ Fire(m, FirstSignal(e), e, reraise_ctx)
    /\ UNCHANGED <<pure_vars, lifecycle_vars, pure_vars>>

\* the first fire_event returns: the second signal is fired
FiredFirst(m) ==
    /\ dispatch[m].pc = "fire_first"
    /\ dispatch' = [dispatch EXCEPT ![m].pc = "fire_second"]
    /\ Fire(m, SecondSignal(dispatch[m].err), dispatch[m].err, dispatch[m].ctx)
    /\ UNCHANGED <<pure_vars, lifecycle_vars, pure_vars>>

\* the second fire_event returns: handle_commands returns
FiredSecond(m) ==
    /\ dispatch[m].pc = "fire_second"
    /\ dispatch' = [dispatch EXCEPT ![m].pc = "returned"]
    /\ UNCHANGED <<pure_vars, lifecycle_vars, listeners, fired, logged, reported>>

-----------------------------------------------------------------------------
(* The specifications. *)

Init ==
    /\ plugins = <<>>
    /\ plugin_command_cache = <<>>
    /\ commands = << <<"help", help_command>> >>
    /\ module_plugins = <<>>
    /\ sys_modules = {}
    /\ running = {}
    /\ cancelled = {}
    /\ load_hooked = {}
    /\ unload_hooked = {}
    /\ created = 0
    /\ call = Idle
    /\ hook = HookIdle
    /\ listeners = <<DefaultHandler>>
    /\ dispatch = [m \in Messages |-> NoDispatch]
    /\ fired = [m \in Messages |-> <<>>]
    /\ logged = {}
    /\ reported = {}
    /\ arg = None
    /\ result = None
    /\ functions = [f \in FunctionNames |-> Unmarked]

\* the plugin lifecycle, the command tables and the event fan-out
Next ==
    \/ \E k \in PluginClasses : LoadPlugin(k)
    \/ \E m \in Modules : LoadPluginsFrom(m)
    \/ PluginLoadRaises
    \/ PluginLoadReturns
    \/ LoadRegister
    \/ \E k \in PluginClasses : UnloadPlugin(Str(PluginName(k)))
    \/ \E k \in PluginClasses : UnloadPlugin(Type(k))
    \/ UnloadScopeCancelled
    \/ UnloadHookReturns
    \/ PluginUnloadRaises
    \/ \E m \in Modules : UnloadPluginsFrom(m)
    \/ UnloadFromHookReturns
    \/ CallReturns
    \/ \E e \in EventNames : EventHook(e)
    \/ EventHookRuns
    \/ EventHookJoins
    \/ EventHookReturns

Spec == Init /\ [][Next]_vars

\* the dispatch of messages and the "command_error" channel
NextDispatch ==
    \/ \E h \in HostHandlers : AddEvent(h)
    \/ \E h \in HostHandlers : RemoveEvent(h)
    \/ \E m \in Messages, bot_type \in SUBSET BotTypeBits,
          has_author, is_bot, is_self, in_guild \in BOOLEAN :
            HandleCommands(m, bot_type, has_author, is_bot, is_self, in_guild)
    \/ \E m \in Messages, matched \in BOOLEAN : MessageChecked(m, matched)
    \/ \E m \in Messages : CommandCompletes(m)
    \/ \E m \in Messages : CommandCrashes(m)
    \/ \E m \in Messages, kind \in ErrorKinds : CommandRaises(m, kind)
    \/ \E m \in Messages : FiredFirst(m)
    \/ \E m \in Messages : FiredSecond(m)

SpecDispatch == Init /\ [][NextDispatch]_vars

\* lookup_command(name) is called
LookupCommand(name) ==
    /\ arg' = Str(name)
    /\ result' = lookup_command(name)
    /\ UNCHANGED <<lifecycle_vars, dispatch_vars, functions>>

\* the command tables: standalone commands come and go while plugins are loaded
NextCommands ==
    \/ \E c \in StandaloneCommands : AddCommand(c)
    \/ \E c \in StandaloneCommands : RemoveCommand(c)
    \/ \E n \in CommandNames : RemoveCommandNamed(n)
    \/ \E k \in PluginClasses : created < MaxLoaded /\ LoadPlugin(k)
    \/ PluginLoadReturns
    \/ LoadRegister
    \/ CallReturns
    \/ \E n \in CommandNames : LookupCommand(n)

SpecCommands == Init /\ [][NextCommands]_vars

----------------------------------------------------------------------------
(* get_command *)

\* the subcommands registered on the commands of each name, in registration order
SubcommandDefs(cmd_name) ==
    IF cmd_name = "ping"
    THEN << [cmd_name |-> "also", cmd_aliases |-> <<"add">>],
            [cmd_name |-> "add", cmd_aliases |-> <<"a">>] >>
    ELSE IF cmd_name = "add"
    THEN << [cmd_name |-> "deep", cmd_aliases |-> <<>>] >>
    ELSE <<>>

\* command.cmd_subcommands
cmd_subcommands(command) ==
    [i \in 1..Len(SubcommandDefs(command.cmd_name)) |->
        Command(command.owner, SubcommandDefs(command.cmd_name)[i])]

\* a command path is a str, here a sequence of atoms: a space, or a maximal run
\* of other characters
PathAtoms == {"ping", "add", "a", "deep", " "}

RECURSIVE SeqsUpTo(_, _)
SeqsUpTo(S, n) ==
    IF n = 0 THEN {<<>>}
    ELSE SeqsUpTo(S, n - 1) \cup
         {Append(q, x) : q \in {r \in SeqsUpTo(S, n - 1) : Len(r) = n - 1}, x \in S}

Paths ==
    {q \in SeqsUpTo(PathAtoms, MaxPath) :
        \A i \in 1..(Len(q) - 1) : q[i] = " " \/ q[i + 1] = " "}

\* command_name.split(" "): a new, empty token starts at every space
RECURSIVE SplitInto(_, _)
SplitInto(tokens, path) ==
    IF path = <<>> THEN tokens
    ELSE IF Head(path) = " " THEN SplitInto(Append(tokens, ""), Tail(path))
    ELSE SplitInto([tokens EXCEPT ![Len(tokens)] = Head(path)], Tail(path))

Split(path) == SplitInto(<<"">>, path)

\* token in cmd.cmd_aliases
InList(x, list) == \E i \in 1..Len(list) : list[i] = x

\* the subcommand whose name is the token, or else the first that has it as an alias
NextFilteredByName(command, token) ==
    LET subs == cmd_subcommands(command)
        named == {i \in 1..Len(subs) : subs[i].cmd_name = token}
        aliased == {i \in 1..Len(subs) : InList(token, subs[i].cmd_aliases)}
    IN  IF named # {} THEN subs[CHOOSE i \in named : \A j \in named : i <= j]
        ELSE IF aliased # {} THEN subs[CHOOSE i \in aliased : \A j \in aliased : i <= j]
        ELSE None

\* next(filter(lambda cmd: cmd.cmd_name == token or token in cmd.cmd_aliases,
\* command.cmd_subcommands)), None standing for StopIteration
NextFiltered(command, token) ==
    LET subs == cmd_subcommands(command)
        hits == {i \in 1..Len(subs) :
                    subs[i].cmd_name = token \/ InList(token, subs[i].cmd_aliases)}
    IN  IF hits = {} THEN None ELSE subs[CHOOSE i \in hits : \A j \in hits : i <= j]

\* the loop over sp[1:]
RECURSIVE Descend(_, _)
Descend(command, tokens) ==
    IF tokens = <<>> THEN command
    ELSE IF NextFiltered(command, Head(tokens)) = None THEN None
    ELSE Descend(NextFiltered(command, Head(tokens)), Tail(tokens))

get_command(command_name) ==
    LET sp == Split(command_name)
    IN  IF lookup_command(sp[1]) = None THEN None
        ELSE Descend(lookup_command(sp[1]), Tail(sp))

\* get_command(command_name) is called
GetCommand(command_name) ==
    /\ arg = None
    /\ arg' = [path |-> command_name]
    /\ result' = get_command(command_name)
    /\ UNCHANGED <<lifecycle_vars, dispatch_vars, functions>>

\* the caller takes the result of the last call
Returns ==
    /\ arg # None
    /\ arg' = None
    /\ result' = None
    /\ UNCHANGED <<lifecycle_vars, dispatch_vars, functions>>

\* command paths are resolved while commands are added and a plugin is loaded
NextResolve ==
    \/ \E c \in StandaloneCommands : AddCommand(c)
    \/ \E k \in PluginClasses : created < MaxLoaded /\ LoadPlugin(k)
    \/ PluginLoadReturns
    \/ LoadRegister
    \/ CallReturns
    \/ arg = None /\ \E q \in Paths : GetCommand(q)
    \/ Returns

SpecResolve == Init /\ [][NextResolve]_vars

----------------------------------------------------------------------------
(* _convert *)

\* the characters of a str are a sequence
Quote == "\""

\* the tokens a message may be split into
TokenValues == { Str(<<"5">>), Str(<<Quote, "a", " ", "b", Quote>>), Str(<<"x">>) }

TokenLists == SeqsUpTo(TokenValues, MaxTokens)

\* inspect.Parameter.empty, and a declared default
Empty == [empty |-> TRUE]
Default(v) == [value |-> v]

Param(name, kind, default) ==
    [name |-> name, kind |-> kind, annotation |-> [type |-> name], default |-> default]

\* the ordinary parameters a handler may declare after ctx: those with a default
\* come last
PositionalLists ==
    { <<>>,
      << Param("a", "POSITIONAL_OR_KEYWORD", Empty) >>,
      << Param("a", "POSITIONAL_OR_KEYWORD", Default(Str(<<"d">>))) >>,
      << Param("a", "POSITIONAL_OR_KEYWORD", Empty),
         Param("c", "POSITIONAL_OR_KEYWORD", Empty) >>,
      << Param("a", "POSITIONAL_OR_KEYWORD", Empty),
         Param("c", "POSITIONAL_OR_KEYWORD", Default(Str(<<"d">>))) >>,
      << Param("a", "POSITIONAL_OR_KEYWORD", Default(Str(<<"d">>))),
         Param("c", "POSITIONAL_OR_KEYWORD", Default(Str(<<"d">>))) >> }

\* signature.parameters of a handler: ctx, the ordinary parameters, then
\* optionally *args, a keyword-only parameter and **kwargs
Signatures ==
    { << Param("ctx", "POSITIONAL_OR_KEYWORD", Empty) >> \o ps \o va \o ko \o vk :
        ps \in PositionalLists,
        va \in { <<>>, << Param("args", "VAR_POSITIONAL", Empty) >> },
        ko \in { <<>>, << Param("b", "KEYWORD_ONLY", Empty) >>,
                 << Param("b", "KEYWORD_ONLY", Default(Str(<<"d">>))) >> },
        vk \in { <<>>, << Param("kwargs", "VAR_KEYWORD", Empty) >> } }

\* curious.util.replace_quotes: one matching pair of surrounding double quotes
\* is stripped if present
replace_quotes(item) ==
    IF Len(item.str) >= 2 /\ item.str[1] = Quote /\ item.str[Len(item.str)] = Quote
    THEN Str(SubSeq(item.str, 2, Len(item.str) - 1))
    ELSE item

\* ctx._lookup_converter(annotation)(ctx, arg): a value that the converter of the
\* declared type makes from the text
converter(annotation, text) == [converted |-> text, by |-> annotation]

\* " ".join(f)
RECURSIVE Join(_)
Join(f) ==
    IF Len(f) = 0 THEN Str(<<>>)
    ELSE IF Len(f) = 1 THEN f[1]
    ELSE Str(f[1].str \o <<" ">> \o Join(Tail(f)).str)

\* only the current argument, the remaining ones left behind
ConsumeAllButFirst(item, rest) == <<item>>

\* f = [arg] followed by every argument the iterator still has
ConsumeAll(item, rest) == <<item>> \o rest

MissingArgumentError(name) == [raises |-> "MissingArgumentError", param |-> name]

\* the loop over signature.parameters.items(), from the n-th parameter on, with
\* the arguments args_it still has
RECURSIVE ConvertFrom(_, _, _, _, _)
ConvertFrom(params, n, args_it, final_args, final_kwargs) ==
    IF n > Len(params) THEN [args |-> final_args, kwargs |-> final_kwargs]
    ELSE IF n = 1 THEN ConvertFrom(params, 2, args_it, final_args, final_kwargs)
    ELSE
    LET param == params[n]
        exhausted == args_it = <<>>
        item == IF exhausted THEN param.default.value ELSE Head(args_it)
        rest == IF exhausted THEN <<>> ELSE Tail(args_it)
    IN  IF exhausted /\ param.kind = "VAR_POSITIONAL"
        THEN [args |-> final_args, kwargs |-> final_kwargs]
        ELSE IF exhausted /\ param.default = Empty
        THEN MissingArgumentError(param.name)
        ELSE IF param.kind = "POSITIONAL_OR_KEYWORD"
        THEN ConvertFrom(params, n + 1, rest,
                 Append(final_args, converter(param.annotation, replace_quotes(item))),
                 final_kwargs)
        ELSE IF param.kind = "KEYWORD_ONLY"
        THEN ConvertFrom(params, n + 1, <<>>, final_args,
                 DictSet(final_kwargs, param.name,
                         converter(param.annotation, Join(ConsumeAll(item, rest)))))
        ELSE IF param.kind = "VAR_POSITIONAL"
        THEN ConvertFrom(params, n + 1, <<>>,
                 Append(final_args,
                        converter(param.annotation, Join(ConsumeAll(item, rest)))),
                 final_kwargs)
        ELSE ConvertFrom(params, n + 1, rest, final_args, final_kwargs)

convert(tokens, signature) == ConvertFrom(signature, 1, tokens, <<>>, <<>>)

\* _convert(ctx, tokens, signature) is awaited
Convert(tokens, signature) ==
    /\ arg = None
    /\ arg' = [tokens |-> tokens, signature |-> signature]
    /\ result' = convert(tokens, signature)
    /\ UNCHANGED <<lifecycle_vars, dispatch_vars, functions>>

NextConvert ==
    \/ arg = None /\ \E tokens \in TokenLists, signature \in Signatures :
                        Convert(tokens, signature)
    \/ Returns

SpecConvert == Init /\ [][NextConvert]_vars

----------------------------------------------------------------------------
(* split_message_content *)

\* the characters of a message content: a letter, the space, another whitespace
\* character and the double quote
Tab == "\t"
ContentAlphabet == {"a", " ", Tab, Quote}
Whitespace == {" ", Tab}
\* the "\x00" the replacer puts in place of the delimiter
Nul == "\\x00"

Contents == SeqsUpTo(ContentAlphabet, MaxContent)

\* the least position q >= from of a double quote in the text, 0 if there is none
NextQuote(text, from) ==
    LET qs == {q \in from..Len(text) : text[q] = Quote}
    IN  IF qs = {} THEN 0 ELSE CHOOSE q \in qs : \A r \in qs : q <= r

\* m.group(0).replace(delim, "\x00")
replacer(group, delim) == [i \in 1..Len(group) |-> IF group[i] = delim THEN Nul ELSE group[i]]

\* re.sub(r'".+?"', replacer, content) from position i on: the leftmost match
\* opens at the first double quote and closes at the first double quote that
\* leaves at least one character between them
RECURSIVE Sub(_, _, _)
Sub(text, i, delim) ==
    LET open == NextQuote(text, i)
        close == IF open = 0 THEN 0 ELSE NextQuote(text, open + 2)
    IN  IF close = 0 THEN SubSeq(text, i, Len(text))
        ELSE SubSeq(text, i, open - 1) \o replacer(SubSeq(text, open, close), delim)
                 \o Sub(text, close + 1, delim)

\* str.split(): the maximal runs of characters that are not whitespace
RECURSIVE SplitWhitespace(_, _, _)
SplitWhitespace(text, current, parts) ==
    IF text = <<>> THEN (IF current = <<>> THEN parts ELSE Append(parts, current))
    ELSE IF Head(text) \in Whitespace
    THEN SplitWhitespace(Tail(text), <<>>,
                         IF current = <<>> THEN parts ELSE Append(parts, current))
    ELSE SplitWhitespace(Tail(text), Append(current, Head(text)), parts)

\* p.replace("\x00", " ")
Restore(part) == [i \in 1..Len(part) |-> IF part[i] = Nul THEN " " ELSE part[i]]

split_message_content(content, delim) ==
    LET parts == SplitWhitespace(Sub(content, 1, delim), <<>>, <<>>)
    IN  [i \in 1..Len(parts) |-> Restore(parts[i])]

\* split_message_content(content) is called
SplitMessageContent(content) ==
    /\ arg = None
    /\ arg' = [content |-> Str(content)]
    /\ result' = [i \in 1..Len(split_message_content(content, " ")) |->
                    Str(split_message_content(content, " ")[i])]
    /\ UNCHANGED <<lifecycle_vars, dispatch_vars, functions>>

NextTokenize ==
    \/ arg = None /\ \E content \in Contents : SplitMessageContent(content)
    \/ Returns

SpecTokenize == Init /\ [][NextTokenize]_vars

----------------------------------------------------------------------------
(* prefix_check_factory *)

\* message.content of the messages given to the checker
MessageAlphabet == {"!", "a", " "}
MessageContents == SeqsUpTo(MessageAlphabet, MaxMessageLen)

\* the str a prefix may be
PrefixValues == { Str(<<>>), Str(<<"!">>), Str(<<"!", "!">>), Str(<<"a">>) }

\* the prefix given to prefix_check_factory: a str (is_str, the str being
\* items[1]) or a list of str, or a callable that returns one of these
PrefixArguments ==
    { [callable |-> c, is_str |-> TRUE, items |-> <<v>>] :
        c \in BOOLEAN, v \in PrefixValues }
    \cup
    { [callable |-> c, is_str |-> FALSE, items |-> items] :
        c \in BOOLEAN, items \in SeqsUpTo(PrefixValues, MaxPrefixes) }

\* content.startswith(prefix)
StartsWith(content, prefix) ==
    /\ Len(prefix) <= Len(content)
    /\ SubSeq(content, 1, Len(prefix)) = prefix

\* the loop over the candidates: the first one the content starts with
FirstStartingWith(content, items) ==
    LET hits == {i \in 1..Len(items) : StartsWith(content, items[i].str)}
    IN  IF hits = {} THEN None ELSE items[CHOOSE i \in hits : \A j \in hits : i <= j]

\* matched, as the two isinstance branches leave it: the second tests the
\* prefix the factory was given, not what a callable returned
Matched(prefix, content) ==
    IF prefix.is_str
    THEN (IF StartsWith(content, prefix.items[1].str) THEN prefix.items[1] ELSE None)
    ELSE IF ~prefix.callable THEN FirstStartingWith(content, prefix.items)
    ELSE None

\* `not matched`: None and the empty str are both false
Not(matched) == matched = None \/ matched.str = <<>>

\* __inner(bot, message)
prefix_check(prefix, content) ==
    LET matched == Matched(prefix, content)
    IN  IF Not(matched) THEN None
        ELSE LET tokens == split_message_content(
                               SubSeq(content, Len(matched.str) + 1, Len(content)), " ")
             IN  IF tokens = <<>>
                 THEN [raises |-> "IndexError", matched |-> matched]
                 ELSE [matched |-> matched,
                       command_word |-> Str(tokens[1]),
                       tokens |-> [i \in 1..(Len(tokens) - 1) |-> Str(tokens[i + 1])]]

\* the checker made by prefix_check_factory(prefix) is awaited on a message
PrefixCheck(prefix, content) ==
    /\ arg = None
    /\ arg' = [prefix |-> prefix, content |-> Str(content)]
    /\ result' = prefix_check(prefix, content)
    /\ UNCHANGED <<lifecycle_vars, dispatch_vars, functions>>

NextPrefix ==
    \/ arg = None /\ \E prefix \in PrefixArguments, content \in MessageContents :
                        PrefixCheck(prefix, content)
    \/ Returns

SpecPrefix == Init /\ [][NextPrefix]_vars

----------------------------------------------------------------------------
(* command and subcommand *)

\* the names and alias lists the decorators may be given
NameArguments == {None, Str("n")}
AliasArguments == {None, [list |-> <<"x">>]}

\* the attributes command(name=name, aliases=aliases)(func) sets on func
inner(func, name, aliases) ==
    [is_cmd |-> TRUE,
     cmd_name |-> IF name = None THEN Str(func) ELSE name,
     cmd_aliases |-> IF aliases = None THEN <<>> ELSE aliases.list,
     cmd_subcommand |-> FALSE,
     cmd_subcommands |-> <<>>]

\* command(name=name, aliases=aliases)(func)
CommandDecorator(func, name, aliases) ==
    /\ functions' = [functions EXCEPT ![func] = inner(func, name, aliases)]
    /\ UNCHANGED <<lifecycle_vars, dispatch_vars, arg, result>>

\* parent.subcommand(name=name, aliases=aliases)(func): func is marked as a
\* command, flagged as a subcommand and appended to the parent's list
SubcommandDecorator(parent, func, name, aliases) ==
    /\ functions[parent].is_cmd
    /\ Len(functions[parent].cmd_subcommands) < MaxSubcommands
    /\ LET cmd == [functions EXCEPT ![func] = [inner(func, name, aliases)
                                                  EXCEPT !.cmd_subcommand = TRUE]]
       IN  functions' = [cmd EXCEPT ![parent].cmd_subcommands = Append(@, func)]
    /\ UNCHANGED <<lifecycle_vars, dispatch_vars, arg, result>>

NextAnnotate ==
    \/ \E func \in FunctionNames, name \in NameArguments, aliases \in AliasArguments :
          CommandDecorator(func, name, aliases)
    \/ \E parent \in FunctionNames, func \in FunctionNames,
          name \in NameArguments, aliases \in AliasArguments :
          SubcommandDecorator(parent, func, name, aliases)

SpecAnnotate == Init /\ [][NextAnnotate]_vars

-----------------------------------------------------------------------------
(* Vocabulary of the properties. *)

\* the plugin instances constructed so far
Instances == {Instance(n, k) : n \in 1..created, k \in PluginClasses}
\* the instances and the scope ids the registration table holds
Registered == {plugins[i][2].fst : i \in 1..Len(plugins)}
RegisteredScopes == {plugins[i][2].snd.scope : i \in 1..Len(plugins)}
\* the instances that are a key of the per-plugin command cache
Cached == {k \in DictKeys(plugin_command_cache) : "klass" \in DOMAIN k}
\* the instances recorded under some module
InModules ==
    UNION {{module_plugins[i][2][j] : j \in 1..Len(module_plugins[i][2])} :
              i \in 1..Len(module_plugins)}
\* whether some name resolves, through lookup_command, to a command of the instance
Resolves(instance) ==
    \E n \in CommandNames : lookup_command(n) # None /\ lookup_command(n).owner = instance
LoadOps == {"load_plugin", "load_plugins_from"}

-----------------------------------------------------------------------------
(* C1 *)

\* C1: when unload_plugin(name) has run to its end for a plugin that was loaded and
\* registered under that name (and the plugin's own hook did not raise), it has
\* not raised, the standalone table is what it was before the load, and no name
\* or alias resolves to a command of that plugin any more.
C1_UnloadAfterLoad ==
    (/\ call.op = "unload_plugin"
     /\ call.pc = "done"
     /\ IsStr(call.arg)
     /\ call.instance # None
     /\ call.exc # "PluginError")
    => /\ call.exc = ""
       /\ call.ret = call.instance
       /\ commands = << <<"help", help_command>> >>
       /\ ~Resolves(call.instance)

-----------------------------------------------------------------------------
(* C2 *)

\* C2: a call of unload_plugin with a name that is not registered returns None
\* without raising, calls no unload hook and leaves the registration table, the
\* command cache and the module map unchanged.
C2_UnknownUnloadIsNoOp ==
    [][ (/\ call.pc = "idle"
         /\ call'.op = "unload_plugin"
         /\ IsStr(call'.arg)
         /\ ~DictHas(plugins, call'.arg.str))
        => /\ call'.pc = "done"
           /\ call'.exc = ""
           /\ call'.ret = None
           /\ UNCHANGED <<plugins, plugin_command_cache, module_plugins, unload_hooked>>
      ]_vars

-----------------------------------------------------------------------------
(* C3 *)

\* C3: in every unload path, a plugin whose plugin_unload() hook has been called
\* has had its background task cancelled before.
C3_CancelBeforeUnloadHook == unload_hooked \subseteq cancelled

-----------------------------------------------------------------------------
(* C4 *)

\* the step in which the awaited plugin_load() of load_plugin raises
LoadHookRaises == call.pc = "plugin_load" /\ call'.exc = "PluginError"

\* C4: when plugin_load() raises, the error reaches the caller of load_plugin, no
\* background task is started for that instance, and the registration table, the
\* command cache and the module map are unchanged: the instance is in none of them.
C4_FailedLoadChangesNothing ==
    /\ [][ LoadHookRaises
           => /\ call'.pc = "done"
              /\ call'.ret = None
              /\ UNCHANGED <<plugins, plugin_command_cache, module_plugins, running>>
         ]_vars
    /\ []( (call.op \in LoadOps /\ call.pc = "done" /\ call.exc = "PluginError")
           => /\ call.instance.id \notin running \cup cancelled
              /\ call.instance \notin Registered \cup Cached \cup InModules )

\* a load whose hook raised has ended while other plugins are loaded
C4_Witness ==
    /\ call.op \in LoadOps
    /\ call.pc = "done"
    /\ call.exc = "PluginError"
    /\ plugins # <<>>
    /\ running # {}

-----------------------------------------------------------------------------
(* C5 *)

\* C5: between lifecycle operations, the background tasks started and not
\* cancelled are exactly the tasks whose scopes the registration table holds.
C5_RunningTasksAreRegistered ==
    call.pc = "idle" => running = RegisteredScopes

-----------------------------------------------------------------------------
(* C6 *)

\* C6: load_plugin for a class whose name is already registered calls no
\* plugin_load() of a new instance, starts no second task and leaves the
\* registration and the command cache unchanged.
C6_ReloadIsNoOp ==
    [][ /\ (/\ call.pc = "idle"
            /\ call'.op = "load_plugin"
            /\ DictHas(plugins, PluginName(call'.arg.type)))
           => load_hooked' = load_hooked
        /\ (/\ call.op = "load_plugin"
            /\ call.pc \in {"plugin_load", "p_scope_wait"}
            /\ DictHas(plugins, PluginName(call.arg.type)))
           => UNCHANGED <<plugins, plugin_command_cache, running>>
      ]_vars

-----------------------------------------------------------------------------
(* C7 *)

\* the handlers of the instance that event_hook has spawned, and those that
\* listen to the event
SpawnedOf(instance) == {h \in hook.spawned : h.self = instance}
Matching(instance, e) ==
    {[self |-> instance, name |-> EventHandlerDefs(instance.klass)[i].name] :
        i \in {j \in 1..Len(EventHandlerDefs(instance.klass)) :
                 e \in EventHandlerDefs(instance.klass)[j].events}}

\* C7: event_hook, interleaved in any way with unload_plugin, does not raise, and
\* when its loop is over it has spawned, of every plugin, all the handlers of the
\* event or none of them.
C7_EventHookAtomicFanOut ==
    /\ hook.pc # "raised"
    /\ hook.pc \in {"join", "done"}
       => \A p \in Instances :
            SpawnedOf(p) = {} \/ SpawnedOf(p) = Matching(p, hook.event)

\* event_hook has run its loop and returned while unload_plugin was suspended in
\* the unload of a plugin that has handlers of the event
C7_Witness ==
    /\ hook.pc = "done"
    /\ hook.during # None
    /\ Unloading = hook.during
    /\ Matching(hook.during, hook.event) # {}

-----------------------------------------------------------------------------
(* C8 *)

\* the fire_event calls handle_commands has made for a message, in order
FiredFor(m) == fired[m]

\* the two calls the except clause makes for the error and reporting context of m
FirstCall(m) ==
    [msg |-> m, signal |-> "command_error", err |-> dispatch[m].err,
     ctx |-> dispatch[m].ctx]
SecondCall(m) ==
    [msg |-> m, signal |-> dispatch[m].err.event_name, err |-> dispatch[m].err,
     ctx |-> dispatch[m].ctx]

\* C8: for a message whose command raised a CommandsError, handle_commands fires
\* "command_error" and then the signal of the error's kind, both with that error
\* and one reporting context, and nothing else; for any other message it fires
\* nothing.
C8_TwoSignalsInOrder ==
    \A m \in Messages :
        /\ dispatch[m].err = None => FiredFor(m) = <<>>
        /\ dispatch[m].pc = "fire_first" => FiredFor(m) = <<FirstCall(m)>>
        /\ (dispatch[m].pc \in {"fire_second", "returned"} /\ dispatch[m].err # None)
           => /\ FiredFor(m) = <<FirstCall(m), SecondCall(m)>>
              /\ dispatch[m].err.error = m

\* one message's command has raised and both its signals are fired, while another
\* message's command has completed without error
C8_Witness ==
    \E m, n \in Messages :
        /\ dispatch[m].pc = "returned"
        /\ dispatch[m].err # None
        /\ Len(FiredFor(m)) = 2
        /\ dispatch[n].pc = "returned"
        /\ dispatch[n].err = None
        /\ dispatch[n].exc = ""

-----------------------------------------------------------------------------
(* C9 *)

Registers(ls, h) == \E i \in 1..Len(ls) : ls[i] = h
\* the step that fires "command_error"
FiresCommandError ==
    \E m \in Messages :
        /\ Len(fired'[m]) = Len(fired[m]) + 1
        /\ fired'[m][Len(fired'[m])].signal = "command_error"

-----------------------------------------------------------------------------
(* C10 *)

\* the first registration, in table order, whose instance has the type
InstancesOfType(t) == {i \in 1..Len(plugins) : TypeOf(plugins[i][2].fst) = t}
FirstOfType(t) == CHOOSE i \in InstancesOfType(t) : \A j \in InstancesOfType(t) : i <= j

\* C10: unload_plugin called with a plugin type of which an instance is registered
\* unregisters the first such instance, and that one alone; it then cancels its
\* task, calls its plugin_unload() and returns it.
C10_UnloadByType ==
    /\ [][ (/\ call.pc = "idle"
            /\ call'.op = "unload_plugin"
            /\ ~IsStr(call'.arg)
            /\ InstancesOfType(call'.arg.type) # {})
           => /\ call'.instance = plugins[FirstOfType(call'.arg.type)][2].fst
              /\ plugins' = DictPop(plugins, plugins[FirstOfType(call'.arg.type)][1])
         ]_vars
    /\ []( (/\ call.op = "unload_plugin"
            /\ call.pc = "done"
            /\ ~IsStr(call.arg)
            /\ call.instance # None
            /\ call.exc = "")
           => /\ call.ret = call.instance
              /\ call.instance.id \in cancelled \cap unload_hooked )

-----------------------------------------------------------------------------
(* C11 *)

\* the plugins recorded under the module when unload_plugins_from was called
UnloadedFrom == {call.batch[i] : i \in 1..Len(call.batch)}

\* C11: when unload_plugins_from has run to its end for a module that plugins
\* were loaded from (and no plugin's own hook raised), it has not raised, none of
\* the module's plugins is in the registration table or in the command cache,
\* none of their names resolves, and the module map has no entry for the module;
\* also when one of them had been unloaded with unload_plugin before.
C11_ModuleUnloadRemovesAll ==
    (/\ call.op = "unload_plugins_from"
     /\ call.pc = "done"
     /\ call.batch # <<>>
     /\ call.exc # "PluginError")
    => /\ call.exc = ""
       /\ ~DictHas(module_plugins, call.module)
       /\ \A p \in UnloadedFrom :
            /\ p \notin Registered \cup Cached
            /\ ~Resolves(p)

----------------------------------------------------------------------------
(* C12 *)
\* the descriptors the standalone table holds under the name
StandaloneUnder(n) == {commands[i][2] : i \in {j \in 1..Len(commands) : commands[j][1] = n}}

\* the descriptors the loaded plugins' tables hold under the name
PluginsUnder(n) ==
    UNION {{plugin_command_cache[t][2][i][2] :
                i \in {j \in 1..Len(plugin_command_cache[t][2]) :
                          plugin_command_cache[t][2][j][1] = n}} :
           t \in 1..Len(plugin_command_cache)}

\* what the precedence rule allows lookup_command(n) to return
Shadowed(n, r) ==
    /\ StandaloneUnder(n) # {} => r \in StandaloneUnder(n)
    /\ (StandaloneUnder(n) = {} /\ PluginsUnder(n) # {}) => r \in PluginsUnder(n)
    /\ (StandaloneUnder(n) = {} /\ PluginsUnder(n) = {}) => r = None

\* C12: whatever the standalone table and the loaded plugins' tables hold,
\* lookup_command(name) returns the standalone descriptor when the standalone
\* table has the name, a plugin's descriptor only when it has not, and nothing
\* when no table has it; and a call of lookup_command changes no table.
C12_StandaloneShadowsPlugins ==
    /\ [](\A n \in CommandNames : Shadowed(n, lookup_command(n)))
    /\ [][(arg' # arg \/ result' # result)
            => /\ UNCHANGED <<lifecycle_vars, dispatch_vars>>
               /\ \E n \in CommandNames : arg' = Str(n) /\ Shadowed(n, result')]_vars

\* "ping" was looked up while both the standalone table and a loaded plugin
\* define it, and the standalone descriptor came back
C12_Witness ==
    /\ arg = Str("ping")
    /\ StandaloneUnder("ping") # {}
    /\ PluginsUnder("ping") # {}
    /\ result \in StandaloneUnder("ping")
    /\ result \notin PluginsUnder("ping")

----------------------------------------------------------------------------
(* C13 *)
\* sub is the first subcommand of d, in registration order, named or aliased t
FirstMatching(d, t, sub) ==
    \E i \in 1..Len(cmd_subcommands(d)) :
        /\ cmd_subcommands(d)[i] = sub
        /\ sub.cmd_name = t \/ InList(t, sub.cmd_aliases)
        /\ \A j \in 1..(i - 1) :
             /\ cmd_subcommands(d)[j].cmd_name # t
             /\ ~InList(t, cmd_subcommands(d)[j].cmd_aliases)

\* the descriptor reached after each token, None from the first token that fails
Reached(ts) ==
    LET chain[i \in 1..Len(ts)] ==
            IF i = 1 THEN lookup_command(ts[1])
            ELSE IF chain[i - 1] = None THEN None
            ELSE IF \E sub \in {cmd_subcommands(chain[i - 1])[j] :
                                   j \in 1..Len(cmd_subcommands(chain[i - 1]))} :
                        FirstMatching(chain[i - 1], ts[i], sub)
                 THEN CHOOSE sub \in {cmd_subcommands(chain[i - 1])[j] :
                                        j \in 1..Len(cmd_subcommands(chain[i - 1]))} :
                        FirstMatching(chain[i - 1], ts[i], sub)
                 ELSE None
    IN  chain

\* C13: get_command on the path t1 t2 ... tn returns a descriptor exactly when t1
\* resolves through lookup_command and every later token names, or is an alias
\* of, a subcommand of the descriptor reached so far, the first such subcommand
\* in registration order being taken; when any token fails to match, nothing is
\* returned although the earlier tokens resolved.
C13_GetCommandFollowsPath ==
    [][(arg = None /\ arg' # None)
        => LET ts == Split(arg'.path)
               reached == Reached(ts)
           IN  /\ result' = reached[Len(ts)]
               /\ result' # None <=> \A i \in 1..Len(ts) : reached[i] # None]_vars

\* "ping add" resolved to the subcommand registered first, which has "add" as an
\* alias, not to the later one named "add"
C13_Witness ==
    /\ arg = [path |-> <<"ping", " ", "add">>]
    /\ result # None
    /\ result.cmd_name = "also"

----------------------------------------------------------------------------
(* C14 *)
\* the ordinary parameters of a signature, ctx left out
Ordinary(signature) ==
    SelectSeq(Tail(signature), LAMBDA q : q.kind = "POSITIONAL_OR_KEYWORD")

\* the signature is (ctx, p1..pk, *, b) and there are more than k tokens
PositionalThenKeyword(a) ==
    /\ a # None
    /\ "signature" \in DOMAIN a
    /\ Len(a.signature) = Len(Ordinary(a.signature)) + 2
    /\ a.signature[Len(a.signature)].kind = "KEYWORD_ONLY"
    /\ Len(a.tokens) > Len(Ordinary(a.signature))

\* t(k+1) .. tn joined by single spaces
RestJoined(tokens, k) ==
    LET n == Len(tokens)
        length == (n - k - 1) + Cardinality({<<i, j>> \in (k + 1..n) \X (1..5) :
                                              j <= Len(tokens[i].str)})
        at(pos) == CHOOSE c \in {" ", Quote, "5", "a", "b", "x", "d"} :
                     \E i \in k + 1..n :
                       LET before == (i - k - 1) +
                                     Cardinality({<<h, j>> \in (k + 1..(i - 1)) \X (1..5) :
                                                    j <= Len(tokens[h].str)})
                       IN  \/ /\ pos - before \in 1..Len(tokens[i].str)
                              /\ c = tokens[i].str[pos - before]
                           \/ /\ i < n
                              /\ pos - before = Len(tokens[i].str) + 1
                              /\ c = " "
    IN  Str([pos \in 1..length |-> at(pos)])

\* C14 with the tokens unchanged: for a signature (ctx, p1..pk, *, b) and more
\* than k tokens, _convert returns [convert(p1, t1), ..., convert(pk, tk)] and
\* {b: convert(b, t(k+1) .. tn joined by single spaces)}.
C14_TokensConvertedAsGiven ==
    PositionalThenKeyword(arg)
    => LET k == Len(Ordinary(arg.signature))
           b == arg.signature[k + 2]
       IN  /\ "args" \in DOMAIN result
           /\ result.args = [i \in 1..k |->
                               converter(arg.signature[i + 1].annotation, arg.tokens[i])]
           /\ result.kwargs = << <<b.name, converter(b.annotation, RestJoined(arg.tokens, k))>> >>

\* C14: for a signature (ctx, p1..pk, *, b) and more than k tokens, _convert
\* returns the positional arguments [convert(p1, t1 without one pair of
\* surrounding double quotes), ..., convert(pk, tk without them)] and the keyword
\* arguments {b: convert(b, t(k+1) .. tn joined by single spaces, quotes kept)}:
\* the keyword-only parameter absorbs every remaining token, and no token is
\* consumed twice or dropped.
C14_PositionalThenKeywordRest ==
    PositionalThenKeyword(arg)
    => LET k == Len(Ordinary(arg.signature))
           b == arg.signature[k + 2]
       IN  /\ "args" \in DOMAIN result
           /\ result.args = [i \in 1..k |->
                               converter(arg.signature[i + 1].annotation,
                                         replace_quotes(arg.tokens[i]))]
           /\ result.kwargs = << <<b.name, converter(b.annotation, RestJoined(arg.tokens, k))>> >>

\* (ctx, a, *, b) was converted with three tokens, the first of them quoted
C14_Witness ==
    /\ PositionalThenKeyword(arg)
    /\ Len(Ordinary(arg.signature)) = 1
    /\ Len(arg.tokens) = 3
    /\ arg.tokens[1].str[1] = Quote
    /\ "args" \in DOMAIN result
    /\ Len(result.args) = 1
    /\ Len(result.kwargs) = 1

----------------------------------------------------------------------------
(* C15 *)
\* the signature is (ctx, p1..pk) and there are fewer than k tokens
TokensRunOut(a) ==
    /\ a # None
    /\ "signature" \in DOMAIN a
    /\ Len(a.signature) = Len(Ordinary(a.signature)) + 1
    /\ Len(a.tokens) < Len(Ordinary(a.signature))

\* C15: when the tokens run out at a positional parameter, _convert raises
\* MissingArgumentError naming exactly that parameter, and returns no arguments,
\* if the parameter has no declared default; if it has one, no error is raised
\* and the default is what the positional result holds for that parameter.
C15_DefaultOrMissingArgument ==
    TokensRunOut(arg)
    => LET j == Len(arg.tokens) + 1
           p == arg.signature[j + 1]
       IN  IF p.default = Empty
           THEN result = [raises |-> "MissingArgumentError", param |-> p.name]
           ELSE /\ "args" \in DOMAIN result
                /\ result.args[j] = p.default.value

----------------------------------------------------------------------------
(* C18 *)
\* the double quotes of the text up to position i
QuotesUpTo(text, i) == Cardinality({q \in 1..i : text[q] = Quote})

\* position i lies in a quoted substring, its double quotes included
InQuotes(text, i) == text[i] = Quote \/ QuotesUpTo(text, i) % 2 = 1

\* every double quote belongs to a pair that opens where a token starts, closes
\* where a token ends and has text between, and there is such a pair
ProperlyQuoted(text) ==
    /\ QuotesUpTo(text, Len(text)) > 0
    /\ QuotesUpTo(text, Len(text)) % 2 = 0
    /\ \A i \in 1..Len(text) :
         text[i] = Quote
         => IF QuotesUpTo(text, i) % 2 = 1
            THEN /\ i = 1 \/ text[i - 1] \in Whitespace
                 /\ text[i + 1] # Quote
            ELSE i = Len(text) \/ text[i + 1] \in Whitespace

\* the positions where a token of the text starts and ends: whitespace outside
\* quoted substrings separates tokens
Separates(text, i) == i \in 1..Len(text) /\ text[i] \in Whitespace /\ ~InQuotes(text, i)
TokenStarts(text) ==
    {i \in 1..Len(text) : ~Separates(text, i) /\ (i = 1 \/ Separates(text, i - 1))}
TokenEnd(text, start) ==
    CHOOSE e \in start..Len(text) :
        /\ \A i \in start..e : ~Separates(text, i)
        /\ e = Len(text) \/ Separates(text, e + 1)

\* C18: for a content over letters, space, other whitespace and double quotes
\* that contains properly quoted substrings, split_message_content yields each
\* quoted substring, quotes included and inner whitespace intact, as one token,
\* and every whitespace-separated run of unquoted text as its own token, with no
\* empty token.
C18_QuotedSubstringsStayWhole ==
    (/\ arg # None
     /\ "content" \in DOMAIN arg
     /\ "prefix" \notin DOMAIN arg
     /\ ProperlyQuoted(arg.content.str))
    => LET text == arg.content.str
           starts == TokenStarts(text)
           nth(k) == CHOOSE i \in starts : Cardinality({j \in starts : j < i}) = k - 1
       IN  /\ Len(result) = Cardinality(starts)
           /\ \A k \in 1..Len(result) :
                /\ result[k].str # <<>>
                /\ result[k].str = SubSeq(text, nth(k), TokenEnd(text, nth(k)))

----------------------------------------------------------------------------
(* C16 *)
\* the checker was built from a sequence of candidate prefixes
FromCandidates(a) ==
    /\ a # None
    /\ "prefix" \in DOMAIN a
    /\ ~a.prefix.callable
    /\ ~a.prefix.is_str

\* the candidates the content starts with, by position in the sequence
Starting(a) ==
    {i \in 1..Len(a.prefix.items) :
        /\ Len(a.prefix.items[i].str) <= Len(a.content.str)
        /\ \A j \in 1..Len(a.prefix.items[i].str) :
             a.content.str[j] = a.prefix.items[i].str[j]}

\* C16: for a checker built from an ordered sequence of candidate prefixes, the
\* matched prefix is the first candidate in sequence order that the content
\* starts with, whether or not a later one is longer, and the checker returns no
\* match exactly when the content starts with none of the candidates.
C16_FirstCandidateMatches ==
    FromCandidates(arg)
    => /\ result = None <=> Starting(arg) = {}
       /\ result # None
          => \E i \in Starting(arg) :
               /\ \A j \in Starting(arg) : i <= j
               /\ result.matched = arg.prefix.items[i]

----------------------------------------------------------------------------
(* C17 *)
\* the checker matched a prefix and only whitespace, or nothing, follows it
NothingFollows(a, r) ==
    /\ a # None
    /\ "prefix" \in DOMAIN a
    /\ r # None
    /\ \A i \in (Len(r.matched.str) + 1)..Len(a.content.str) : a.content.str[i] \in Whitespace

\* C17: when the message matches the prefix and nothing but whitespace follows
\* it, the checker does not raise: it reports the match with an empty command
\* word and no remaining tokens.
C17_EmptyCommandWord ==
    NothingFollows(arg, result)
    => /\ "raises" \notin DOMAIN result
       /\ result.command_word = Str(<<>>)
       /\ result.tokens = <<>>

----------------------------------------------------------------------------
(* C19 *)
\* the list old is the beginning of the list new
IsPrefix(old, new) == Len(old) <= Len(new) /\ SubSeq(new, 1, Len(old)) = old

\* C19: whatever command() and subcommand() decorations are applied, the same
\* function more than once included, each function's cmd_subcommands only grows:
\* after every step the list begins with what it was before, so no entry is
\* removed, replaced or reordered.
C19_SubcommandsOnlyGrow ==
    [][\A func \in FunctionNames :
          IsPrefix(functions[func].cmd_subcommands, functions'[func].cmd_subcommands)]_vars

----------------------------------------------------------------------------
(* C20 *)
\* load_plugin or unload_plugin is suspended at one of its awaits
Suspended ==
    /\ call.op \in {"load_plugin", "unload_plugin"}
    /\ call.pc \notin {"idle", "done"}

\* C20: whenever load_plugin or unload_plugin is suspended, a resolution that
\* runs meanwhile finds a consistent index: a plugin instance has its command
\* table exactly when it is in the registration table, and no name resolves,
\* through lookup_command, to a command of an instance that is not registered.
C20_ConsistentIndexWhileSuspended ==
    Suspended
    => \A instance \in Instances :
         /\ instance \in Registered <=> instance \in Cached
         /\ Resolves(instance) => instance \in Registered

----------------------------------------------------------------------------
(* C21 *)
\* the parameters of the signature that consume every remaining token
ConsumingToEnd(signature) ==
    {c \in 2..Len(signature) : signature[c].kind \in {"KEYWORD_ONLY", "VAR_POSITIONAL"}}

\* the keyword-only parameters declared after a parameter that consumes to the end
DeclaredAfter(signature) ==
    {q \in 2..Len(signature) :
        /\ signature[q].kind = "KEYWORD_ONLY"
        /\ \E c \in ConsumingToEnd(signature) : c < q}

\* C21: a parameter q declared after a parameter that consumes to the end never
\* gets a token, whatever the tokens, the empty list included: when _convert
\* returns, every such q has a declared default and the keyword arguments hold
\* nothing else for it; when it raises MissingArgumentError for such a q, q has no
\* default and is the first such parameter without one. _convert never returns
\* with a q without default left out of both results.
C21_StarvedParameterDefaultOrError ==
    (/\ arg # None
     /\ "signature" \in DOMAIN arg
     /\ DeclaredAfter(arg.signature) # {})
    => LET signature == arg.signature
           after == DeclaredAfter(signature)
           bare == {q \in after : signature[q].default = Empty}
       IN  /\ "args" \in DOMAIN result
              => \A q \in after :
                   /\ signature[q].default # Empty
                   /\ DictHas(result.kwargs, signature[q].name)
                      => DictGet(result.kwargs, signature[q].name) = signature[q].default.value
           /\ ("raises" \in DOMAIN result
               /\ \E q \in after : signature[q].name = result.param)
              => \E q \in bare :
                   /\ signature[q].name = result.param
                   /\ \A r \in bare : q <= r

----------------------------------------------------------------------------
(* C22 *)
\* the handlers of the event that the registered plugin instances define
MatchingRegistered(e) == UNION {Matching(instance, e) : instance \in Registered}

\* C22: when event_hook, called for an event, ends its loop and waits for its
\* task group, it has spawned every handler of the event that a registered
\* plugin instance defines, and no other handler; it returns only after that
\* wait.
C22_EventHookSpawnsMatching ==
    [][/\ (hook.pc \in {"enter", "spawn"} /\ hook'.pc = "join")
          => hook'.spawned = MatchingRegistered(hook'.event)
       /\ hook'.pc = "done" => hook.pc \in {"join", "done"}]_vars

----------------------------------------------------------------------------
(* C23 *)
\* the primary name and the aliases of a command
NamesOf(c) == {c.cmd_name} \cup {c.cmd_aliases[i] : i \in 1..Len(c.cmd_aliases)}

\* the keys of a table that map to the command
MapsTo(table, c) == {table[i][1] : i \in {j \in 1..Len(table) : table[j][2] = c}}

\* the entries of a table that belong to other commands, in table order
EntriesOfOthers(table, c) == SelectSeq(table, LAMBDA entry : entry[2] # c)

\* C23: after add_command(c) the primary name and every alias of c map to c in
\* the standalone table; after a following remove_command(c), given the command
\* function, no key of the table maps to c any more, and the entries of the
\* other commands are what they were.
C23_AddThenRemoveCommand ==
    [][\A c \in StandaloneCommands :
          /\ AddCommand(c) => NamesOf(c) \subseteq MapsTo(commands', c)
          /\ (NamesOf(c) \subseteq MapsTo(commands, c) /\ RemoveCommand(c))
             => /\ MapsTo(commands', c) = {}
                /\ EntriesOfOthers(commands', c) = EntriesOfOthers(commands, c)]_vars

============================================================================
